---- MODULE Spec2Model ----
(***************************************************************************)
(* Model of scripts/deploy-to-digitalocean.py: the DigitalOceanAPI client  *)
(* (locate, create, update, trigger, poll), main()'s create-or-update      *)
(* sequence, and the remote platform the requests act on.                  *)
(***************************************************************************)
EXTENDS Integers, Sequences, FiniteSets, TLC

(* ------------------------------ bounds -------------------------------- *)

\* Client processes of the model.
NumProcs == 2

\* Resources the platform holds before the first run.
MaxApps == 2

\* Length of the phase sequence a deployment goes through before it stays.
MaxPhases == 3

\* Requests of one wait that take SlowDelay seconds instead of none.
MaxSlow == 2

\* Seconds a slow request takes.
SlowDelay == 5

\* Runs of main() executed one after another.
MaxRuns == 2

\* Entries of a service's environment list before update_env_vars.
MaxEnvs == 2

(* ------------------------- program constants -------------------------- *)

\* time.sleep(10)
PollInterval == 10

\* max_wait_sec: int = 600
DefaultMaxWait == 600

\* The calls of wait_for_deployment explored besides main()'s default; the
\* parameter is an int, a deadline already past included.
MaxWaitChoices == {0 - 20, 0, 5, 10, 25, DefaultMaxWait}

\* The clock's cap: a wait that starts by SlowDelay ends at the latest one
\* sleep and its slow requests after its deadline, so no run needs a later
\* time.
MaxClock == DefaultMaxWait + PollInterval + (MaxSlow + 1) * SlowDelay

Procs == 1..NumProcs

TerminalPhases == {"ACTIVE", "ERROR", "CANCELED"}

TransientPhases == {"PENDING", "BUILDING"}

Phases == TransientPhases \cup TerminalPhases

\* The resource names the platform may hold: the script's, and one that
\* differs from it in case only.
Names == {"admp-server", "ADMP-SERVER"}

(* ----------------------------- documents ------------------------------ *)

\* get_app_spec(): the desired specification (environment list abridged).
get_app_spec ==
    [name |-> "admp-server",
     region |-> "nyc",
     services |-> << [name |-> "web",
                      envs |-> << [key |-> "NODE_ENV", value |-> "production",
                                   scope |-> "RUN_TIME", type |-> "-"],
                                  [key |-> "PORT", value |-> "8080",
                                   scope |-> "RUN_TIME", type |-> "-"] >>] >>]

\* The specifications two copies of the script may carry: get_app_spec() as
\* it is, with another region, and with another name.
DesiredSpecs ==
    { get_app_spec,
      [get_app_spec EXCEPT !.region = "sfo"],
      [get_app_spec EXCEPT !.name = "ADMP-SERVER"] }

\* A specification the platform holds for a resource this script never wrote.
RemoteSpec(n) == [name |-> n, region |-> "ams", services |-> << >>]

\* Python's None for the local variable app.
None == [id |-> 0, spec |-> RemoteSpec(""), active_deployment |-> 0]

NoError == [kind |-> "none", phase |-> "-"]

VARIABLES
    apps,          \* remote: the resources, in listing order
    deployments,   \* remote: the deployments; a deployment's id is its index
    now,           \* wall clock (seconds since the run began)
    entry,         \* which entry point the run exercises
    pc,            \* per process: position in the program
    app_spec,      \* main: app_spec
    listing,       \* get_app_by_name: apps, the listing the platform answered
    app,           \* main: app
    app_id,        \* wait_for_deployment: app_id
    deployment,    \* id of the deployment handed to wait_for_deployment
    max_wait_sec,  \* wait_for_deployment: max_wait_sec
    start_time,    \* wait_for_deployment: start_time
    phase,         \* wait_for_deployment: phase of the last poll
    elapsed,       \* wait_for_deployment: elapsed of the last poll
    error,         \* the exception that ended the run, if any
    log,           \* the requests the run has issued, in order
    slow,          \* slow requests of the run so far
    run,           \* number of the current run of main()
    reported,      \* the resource id each finished run printed
    script,        \* phases the watched deployment was created with
    apps0,         \* the listing before the first run
    spec,          \* update_env_vars: spec
    new_env_vars,  \* update_env_vars: new_env_vars, its items in insertion order
    writer,        \* per resource: the process whose write was applied last (0: none)
    progress       \* wait_for_deployment: progress of the last poll

vars == << apps, deployments, now, entry, pc, app_spec, listing, app, app_id, deployment,
           max_wait_sec, start_time, phase, elapsed, error, log, slow, run,
           reported, script, apps0, spec, new_env_vars, writer, progress >>

(* ------------------------------ helpers ------------------------------- *)

\* The sequences of at most n elements of S.
RECURSIVE SeqsUpTo(_, _)
SeqsUpTo(S, n) ==
    IF n = 0 THEN { << >> }
    ELSE LET shorter == SeqsUpTo(S, n - 1)
         IN shorter \cup { Append(s, x) : s \in { t \in shorter : Len(t) = n - 1 },
                                          x \in S }

\* The phases a deployment answers successive polls with, the last one for
\* ever after. A deployment the platform starts for main() goes through up
\* to MaxPhases - 1 transient phases and then a terminal one (a deployment
\* leaves no terminal phase), or hangs in BUILDING.
Scripts ==
    { Append(s, x) : s \in SeqsUpTo(TransientPhases, MaxPhases - 1),
                     x \in TerminalPhases }
        \cup { << "BUILDING" >> }

\* The deployments of the concurrent runs: at once ACTIVE, or failing after
\* one transient phase.
ConcScripts == { << "ACTIVE" >>, << "BUILDING", "ERROR" >> }

\* The phases of a deployment the platform starts for a run.
NewScripts == IF entry = "conc" THEN ConcScripts ELSE Scripts

\* The deployments that never reach a terminal phase: any transient phases.
StuckScripts == SeqsUpTo(TransientPhases, MaxPhases) \ { << >> }

\* The platform's state for a listing of names: resource i has id i and one
\* deployment, i, that is active.
InitialApps(names) ==
    [i \in 1..Len(names) |->
        [id |-> i, spec |-> RemoteSpec(names[i]), active_deployment |-> i]]

InitialDeployments(names) ==
    [i \in 1..Len(names) |->
        [app_id |-> i, force_build |-> FALSE, phases |-> << "ACTIVE" >>]]

Request(op, a, d, f, ok) ==
    [op |-> op, app_id |-> a, deployment_id |-> d, force_build |-> f, ok |-> ok]

\* The seconds a request of process p may take. Latency is explored where
\* the clock is read, in the calls of wait_for_deployment on its own; the
\* requests of the other entry points take no time.
Delays(p) ==
    IF entry \in {"wait", "progress"} /\ slow[p] < MaxSlow
    THEN {0, SlowDelay} ELSE {0}

\* Index of the resource with id a in the platform's list (0: none).
IndexOf(a) ==
    IF \E i \in 1..Len(apps) : apps[i].id = a
    THEN CHOOSE i \in 1..Len(apps) : apps[i].id = a
    ELSE 0

\* Mutant of get_app_by_name: the name is not compared, the first listed
\* resource is taken.
get_app_by_name_first(list, name) ==
    IF list = << >> THEN None ELSE Head(list)

\* Mutant of get_app_by_name: no resource is ever found.
get_app_by_name_none(list, name) == None

\* Mutant of get_app_by_name: the scan goes on after a match, so the last
\* listed resource of that name is returned.
RECURSIVE get_app_by_name_last(_, _)
get_app_by_name_last(list, name) ==
    IF list = << >> THEN None
    ELSE IF list[Len(list)].spec.name = name THEN list[Len(list)]
    ELSE get_app_by_name_last(SubSeq(list, 1, Len(list) - 1), name)

\* get_app_by_name: the first listed resource whose spec.name is name.
RECURSIVE get_app_by_name(_, _)
get_app_by_name(list, name) ==
    IF list = << >> THEN None
    ELSE IF Head(list).spec.name = name THEN Head(list)
    ELSE get_app_by_name(Tail(list), name)

\* Mutant of force_rebuild: the argument is left out and create_deployment's
\* default applies.
force_rebuild_default == FALSE

\* main, line 209: the force_rebuild argument of api.create_deployment.
force_rebuild == TRUE

\* Mutant of deployment_to_wait_for: the resource's active deployment is
\* waited for, as on the create branch.
deployment_to_wait_for_active(a, created) == a.active_deployment

\* main, line 213: the deployment id handed to wait_for_deployment on the
\* update branch is deployment['id'], the id create_deployment returned;
\* a is app, created is that id.
deployment_to_wait_for(a, created) == created

\* Mutant of WaitDecision: ACTIVE is not tested and counts as transient.
WaitDecision_no_return(ph, el, maxw) ==
    IF ph \in {"ERROR", "CANCELED"} THEN "raise_failed"
    ELSE IF el > maxw THEN "raise_timeout"
    ELSE "sleep"

\* Mutant of WaitDecision: only ERROR fails the wait, CANCELED counts as
\* transient.
WaitDecision_error_only(ph, el, maxw) ==
    IF ph = "ACTIVE" THEN "return"
    ELSE IF ph = "ERROR" THEN "raise_failed"
    ELSE IF el > maxw THEN "raise_timeout"
    ELSE "sleep"

\* Mutant of WaitDecision: elapsed is taken as start_time - time.time().
WaitDecision_negative_elapsed(ph, el, maxw) ==
    IF ph = "ACTIVE" THEN "return"
    ELSE IF ph \in {"ERROR", "CANCELED"} THEN "raise_failed"
    ELSE IF 0 - el > maxw THEN "raise_timeout"
    ELSE "sleep"

\* Mutant of WaitDecision: the timeout is tested before the phase.
WaitDecision_timeout_first(ph, el, maxw) ==
    IF el > maxw THEN "raise_timeout"
    ELSE IF ph = "ACTIVE" THEN "return"
    ELSE IF ph \in {"ERROR", "CANCELED"} THEN "raise_failed"
    ELSE "sleep"

\* Mutant of WaitDecision: the timeout is raised once elapsed reaches
\* max_wait_sec.
WaitDecision_at_deadline(ph, el, maxw) ==
    IF ph = "ACTIVE" THEN "return"
    ELSE IF ph \in {"ERROR", "CANCELED"} THEN "raise_failed"
    ELSE IF el >= maxw THEN "raise_timeout"
    ELSE "sleep"

\* wait_for_deployment, lines 106-117: what one loop iteration decides from
\* the phase just read and the time elapsed.
WaitDecision(ph, el, maxw) ==
    IF ph = "ACTIVE" THEN "return"
    ELSE IF ph \in {"ERROR", "CANCELED"} THEN "raise_failed"
    ELSE IF el > maxw THEN "raise_timeout"
    ELSE "sleep"

\* dict.get(key, default) of a Python dict held as a function of its keys.
Get(dict, key, default) == IF key \in DOMAIN dict THEN dict[key] ELSE default

\* Line 100: deployment.get('progress', {}) of a deployment with no progress.
NoProgress == [k \in {} |-> 0]

\* The progress a deployment document may carry: none, some steps done, all
\* steps done.
ProgressValues ==
    { NoProgress,
      [steps_successful |-> 1, steps_total |-> 3],
      [steps_successful |-> 3, steps_total |-> 3] }

\* The progress the platform reports in an answer to process p. It is
\* explored in the calls of wait_for_deployment that InitProgress starts.
Reported(p) == IF entry = "progress" THEN ProgressValues ELSE { NoProgress }

\* Mutant of LoopDecision: a deployment whose steps are all done counts as
\* finished.
LoopDecision_by_progress(deployment_doc, el, maxw) ==
    IF /\ Get(deployment_doc.progress, "steps_total", 0) > 0
       /\ Get(deployment_doc.progress, "steps_successful", 0)
             = Get(deployment_doc.progress, "steps_total", 0)
    THEN "return"
    ELSE WaitDecision(deployment_doc.phase, el, maxw)

\* wait_for_deployment, lines 98-117: one loop iteration on the deployment
\* document read. phase = deployment['phase'] decides; progress is read for
\* the status line only.
LoopDecision(deployment_doc, el, maxw) ==
    WaitDecision(deployment_doc.phase, el, maxw)

\* Mutant of RemoteAfterPoll: a wait that times out cancels the deployment.
RemoteAfterPoll_cancel(phases, decision) ==
    IF decision = "raise_timeout" THEN << "CANCELED" >>
    ELSE IF Len(phases) > 1 THEN Tail(phases) ELSE phases

\* The deployment's phases after a poll that made the loop take decision:
\* get_deployment is a GET and no branch of the loop sends anything else
\* (lines 106-117), so the deployment only moves on as the platform has it.
RemoteAfterPoll(phases, decision) ==
    IF Len(phases) > 1 THEN Tail(phases) ELSE phases

(* ------------------------- environment merge -------------------------- *)

\* env_map[e['key']] = e on a Python dict, held as its values in insertion
\* order: an existing key keeps its place and takes the new value, a new key
\* goes to the end.
DictSet(env_map, e) ==
    IF \E i \in 1..Len(env_map) : env_map[i].key = e.key
    THEN [i \in 1..Len(env_map) |->
             IF env_map[i].key = e.key THEN e ELSE env_map[i]]
    ELSE Append(env_map, e)

\* Line 133: env_map = {e['key']: e for e in existing_envs}, continued from
\* env_map.
RECURSIVE EnvMap(_, _)
EnvMap(env_map, existing_envs) ==
    IF existing_envs = << >> THEN env_map
    ELSE EnvMap(DictSet(env_map, Head(existing_envs)), Tail(existing_envs))

\* str(value) of a Python value.
str(value) == value.text

\* Mutant of AddNewVars: an entry that exists keeps its scope and type and
\* only takes the new value.
RECURSIVE AddNewVars_keep_scope(_, _)
AddNewVars_keep_scope(env_map, items) ==
    IF items = << >> THEN env_map
    ELSE LET k == Head(items).key
             old == { i \in 1..Len(env_map) : env_map[i].key = k }
             e == IF old = {}
                  THEN [key |-> k, value |-> str(Head(items).value),
                        scope |-> "RUN_TIME", type |-> "GENERAL"]
                  ELSE [env_map[CHOOSE i \in old : TRUE]
                           EXCEPT !.value = str(Head(items).value)]
         IN AddNewVars_keep_scope(DictSet(env_map, e), Tail(items))

\* Lines 136-142: the loop over new_env_vars.items().
RECURSIVE AddNewVars(_, _)
AddNewVars(env_map, items) ==
    IF items = << >> THEN env_map
    ELSE AddNewVars(DictSet(env_map, [key |-> Head(items).key,
                                      value |-> str(Head(items).value),
                                      scope |-> "RUN_TIME",
                                      type |-> "GENERAL"]),
                    Tail(items))

\* Mutant of merge_envs: the new entries are appended to the existing list.
merge_envs_append(existing_envs, items) ==
    existing_envs \o AddNewVars(<< >>, items)

\* Lines 130-144: list(env_map.values()) after both steps.
merge_envs(existing_envs, items) == AddNewVars(EnvMap(<< >>, existing_envs), items)

\* Mutant of merged_spec: the new entries are merged into every service.
merged_spec_all_services(sp, items) ==
    [sp EXCEPT !.services =
        [i \in 1..Len(@) |-> [@[i] EXCEPT !.envs = merge_envs(@, items)]]]

\* Lines 128-144: the spec after the merge; a spec without services is left
\* as it is.
merged_spec(sp, items) ==
    IF sp.services # << >>
    THEN [sp EXCEPT !.services[1].envs = merge_envs(@, items)]
    ELSE sp

EnvKeys == {"A", "B"}

\* Existing entries: a general run-time one and a secret build-time one per key.
EnvEntries ==
    { [key |-> k, value |-> "0", scope |-> st[1], type |-> st[2]] :
        k \in EnvKeys, st \in { << "RUN_TIME", "GENERAL" >>, << "BUILD_TIME", "SECRET" >> } }

\* Python values given as new values: strings and an int.
PyValues == { [py |-> "str", text |-> "1"], [py |-> "str", text |-> "2"],
              [py |-> "int", text |-> "1"] }

\* The environment lists a service may hold, repeated keys included.
EnvLists == SeqsUpTo(EnvEntries, MaxEnvs)

\* A dict's items: no key twice.
NewEnvVars ==
    { m \in SeqsUpTo([key : EnvKeys, value : PyValues], Cardinality(EnvKeys)) :
        \A i, j \in 1..Len(m) : m[i].key = m[j].key => i = j }

\* A second service, which update_env_vars does not look at.
Worker ==
    [name |-> "worker",
     envs |-> << [key |-> "A", value |-> "w", scope |-> "RUN_TIME", type |-> "SECRET"] >>]

\* No service, one service, or one service and the worker.
ServiceLists ==
    { << >> }
        \cup { << [name |-> "web", envs |-> e] >> : e \in EnvLists }
        \cup { << [name |-> "web", envs |-> e], Worker >> : e \in EnvLists }

\* Mutant of update_app: the platform answers but leaves the spec it holds.
update_app_ignored(a, sp) == a

\* update_app, lines 73-77: PUT /apps/{id} with {'spec': spec}. The platform
\* replaces the resource's whole spec by the one sent and answers with the
\* resource.
update_app(a, sp) == [a EXCEPT !.spec = sp]

(* ------------------------------- Init --------------------------------- *)

InitLocals ==
    /\ app = [p \in Procs |-> None]
    /\ listing = [p \in Procs |-> << >>]
    /\ start_time = [p \in Procs |-> 0]
    /\ phase = [p \in Procs |-> "-"]
    /\ elapsed = [p \in Procs |-> 0]
    /\ error = [p \in Procs |-> NoError]
    /\ log = [p \in Procs |-> << >>]
    /\ slow = [p \in Procs |-> 0]
    /\ reported = [p \in Procs |-> << >>]
    /\ spec = [p \in Procs |-> RemoteSpec("")]
    /\ writer = [i \in 1..Len(apps) |-> 0]
    /\ progress = [p \in Procs |-> NoProgress]

\* python scripts/deploy-to-digitalocean.py: process 1 runs main() against a
\* platform holding any listing of up to MaxApps resources.
InitMain ==
    /\ entry = "main"
    /\ now = 0
    /\ \E names \in SeqsUpTo(Names, MaxApps) :
          /\ apps = InitialApps(names)
          /\ deployments = InitialDeployments(names)
    /\ apps0 = apps
    /\ pc = [p \in Procs |-> IF p = 1 THEN "main" ELSE "idle"]
    /\ run = [p \in Procs |-> IF p = 1 THEN 1 ELSE 0]
    /\ app_id = [p \in Procs |-> 0]
    /\ deployment = [p \in Procs |-> 0]
    /\ max_wait_sec = [p \in Procs |-> DefaultMaxWait]
    /\ script = [p \in Procs |-> << >>]
    /\ new_env_vars = [p \in Procs |-> << >>]
    /\ app_spec = [p \in Procs |-> get_app_spec]
    /\ InitLocals

\* api.wait_for_deployment(app_id, deployment_id, max_wait_sec) called on its
\* own, at once or SlowDelay seconds into the process: process 1 waits for
\* deployment 1 of resource 1.
InitWait ==
    /\ entry = "wait"
    /\ now \in {0, SlowDelay}
    /\ apps = << [id |-> 1, spec |-> get_app_spec, active_deployment |-> 0] >>
    /\ apps0 = apps
    /\ \E s \in Scripts \cup StuckScripts :
          /\ deployments = << [app_id |-> 1, force_build |-> FALSE, phases |-> s] >>
          /\ script = [p \in Procs |-> IF p = 1 THEN s ELSE << >>]
    /\ \E m \in MaxWaitChoices :
          max_wait_sec = [p \in Procs |-> IF p = 1 THEN m ELSE DefaultMaxWait]
    /\ pc = [p \in Procs |-> IF p = 1 THEN "wait" ELSE "idle"]
    /\ run = [p \in Procs |-> 0]
    /\ app_id = [p \in Procs |-> IF p = 1 THEN 1 ELSE 0]
    /\ deployment = [p \in Procs |-> IF p = 1 THEN 1 ELSE 0]
    /\ new_env_vars = [p \in Procs |-> << >>]
    /\ app_spec = [p \in Procs |-> get_app_spec]
    /\ InitLocals

\* api.update_env_vars(app_id, new_env_vars) called on its own: process 1
\* updates resource 1, whose spec holds any of ServiceLists.
InitEnv ==
    /\ entry = "env"
    /\ now = 0
    /\ \E services \in ServiceLists :
          apps = << [id |-> 1,
                     spec |-> [name |-> "admp-server", region |-> "nyc",
                               services |-> services],
                     active_deployment |-> 0] >>
    /\ apps0 = apps
    /\ deployments = << >>
    /\ \E new \in NewEnvVars :
          new_env_vars = [p \in Procs |-> IF p = 1 THEN new ELSE << >>]
    /\ pc = [p \in Procs |-> IF p = 1 THEN "update_env_vars" ELSE "idle"]
    /\ run = [p \in Procs |-> 0]
    /\ app_id = [p \in Procs |-> IF p = 1 THEN 1 ELSE 0]
    /\ deployment = [p \in Procs |-> 0]
    /\ max_wait_sec = [p \in Procs |-> DefaultMaxWait]
    /\ script = [p \in Procs |-> << >>]
    /\ app_spec = [p \in Procs |-> get_app_spec]
    /\ InitLocals

Init == InitMain \/ InitWait \/ InitEnv

\* api.wait_for_deployment(app_id, deployment_id, max_wait_sec) called on its
\* own against a platform whose answers carry any progress.
InitProgress ==
    /\ entry = "progress"
    /\ now = 0
    /\ apps = << [id |-> 1, spec |-> get_app_spec, active_deployment |-> 0] >>
    /\ apps0 = apps
    /\ \E s \in Scripts \cup StuckScripts :
          /\ deployments = << [app_id |-> 1, force_build |-> FALSE, phases |-> s] >>
          /\ script = [p \in Procs |-> IF p = 1 THEN s ELSE << >>]
    /\ \E m \in MaxWaitChoices :
          max_wait_sec = [p \in Procs |-> IF p = 1 THEN m ELSE DefaultMaxWait]
    /\ pc = [p \in Procs |-> IF p = 1 THEN "wait" ELSE "idle"]
    /\ run = [p \in Procs |-> 0]
    /\ app_id = [p \in Procs |-> IF p = 1 THEN 1 ELSE 0]
    /\ deployment = [p \in Procs |-> IF p = 1 THEN 1 ELSE 0]
    /\ new_env_vars = [p \in Procs |-> << >>]
    /\ app_spec = [p \in Procs |-> get_app_spec]
    /\ InitLocals

\* The two processes that run main() at the same time.
Runners == {1, 2}

\* Two copies of the script started together against the same platform:
\* process 1 carries get_app_spec(), process 2 any of DesiredSpecs.
InitConc ==
    /\ entry = "conc"
    /\ now = 0
    /\ \E names \in SeqsUpTo(Names, MaxApps) :
          /\ apps = InitialApps(names)
          /\ deployments = InitialDeployments(names)
    /\ apps0 = apps
    /\ pc = [p \in Procs |-> IF p \in Runners THEN "main" ELSE "idle"]
    /\ run = [p \in Procs |-> IF p \in Runners THEN 1 ELSE 0]
    /\ \E sp \in DesiredSpecs :
          app_spec = [p \in Procs |-> IF p = 2 THEN sp ELSE get_app_spec]
    /\ app_id = [p \in Procs |-> 0]
    /\ deployment = [p \in Procs |-> 0]
    /\ max_wait_sec = [p \in Procs |-> DefaultMaxWait]
    /\ script = [p \in Procs |-> << >>]
    /\ new_env_vars = [p \in Procs |-> << >>]
    /\ InitLocals

(* ------------------------------ actions ------------------------------- *)

\* DigitalOceanAPI.request: the request is recorded and takes d seconds.
Issue(p, req, d) ==
    /\ log' = [log EXCEPT ![p] = Append(@, req)]
    /\ now' = now + d
    /\ slow' = [slow EXCEPT ![p] = IF d > 0 THEN @ + 1 ELSE @]

\* Mutant of RaiseHTTPError: the error is swallowed and the run goes on to
\* its end.
SwallowHTTPError(p) ==
    /\ pc' = [pc EXCEPT ![p] = "done"]
    /\ error' = error

\* response.raise_for_status() raised: main() catches requests.HTTPError and
\* exits 1; a direct caller of the client sees the exception.
RaiseHTTPError(p) ==
    /\ pc' = [pc EXCEPT ![p] = "failed"]
    /\ error' = [error EXCEPT ![p] = [kind |-> "HTTPError", phase |-> "-"]]

\* main, lines 193-202 and 216: app = api.get_app_by_name(app_name), and the
\* branch on it.
Locate(p) ==
    /\ pc[p] = "main"
    /\ \E d \in Delays(p), ok \in BOOLEAN :
          /\ Issue(p, Request("list_apps", 0, 0, FALSE, ok), d)
          /\ IF ok
             THEN LET found == get_app_by_name(apps, app_spec[p].name)
                  IN /\ listing' = [listing EXCEPT ![p] = apps]
                     /\ app' = [app EXCEPT ![p] = found]
                     /\ pc' = [pc EXCEPT ![p] =
                                  IF found # None THEN "update" ELSE "create"]
                     /\ reported' = [reported EXCEPT ![p] =
                                  IF found # None THEN Append(@, found.id) ELSE @]
                     /\ error' = error
             ELSE /\ RaiseHTTPError(p)
                  /\ UNCHANGED << listing, app, reported >>
    /\ UNCHANGED << apps, deployments, entry, app_spec, app_id, deployment,
                    max_wait_sec, start_time, phase, elapsed, run, script, apps0, spec, new_env_vars, writer, progress >>

\* main, line 206: app = api.update_app(app['id'], app_spec). The platform
\* replaces the resource's whole spec and answers with the resource.
UpdateApp(p) ==
    /\ pc[p] = "update"
    /\ \E d \in Delays(p), ok \in BOOLEAN :
          /\ Issue(p, Request("update_app", app[p].id, 0, FALSE, ok), d)
          /\ IF ok
             THEN LET i == IndexOf(app[p].id)
                      updated == update_app(apps[i], app_spec[p])
                  IN /\ apps' = [apps EXCEPT ![i] = updated]
                     /\ writer' = [writer EXCEPT ![i] = p]
                     /\ app' = [app EXCEPT ![p] = updated]
                     /\ pc' = [pc EXCEPT ![p] = "trigger"]
                     /\ error' = error
             ELSE /\ RaiseHTTPError(p)
                  /\ UNCHANGED << apps, app, writer >>
    /\ UNCHANGED << deployments, entry, app_spec, listing, app_id, deployment,
                    max_wait_sec, start_time, phase, elapsed, run, reported,
                    script, apps0, spec, new_env_vars, progress >>

\* main, lines 209-213: deployment = api.create_deployment(app['id'],
\* force_rebuild=True), then the wait for it with the default max_wait_sec.
CreateDeployment(p) ==
    /\ pc[p] = "trigger"
    /\ \E d \in Delays(p), ok \in BOOLEAN :
          /\ Issue(p, Request("create_deployment", app[p].id, 0,
                                force_rebuild, ok), d)
          /\ IF ok
             THEN \E s \in NewScripts :
                     /\ deployments' = Append(deployments,
                            [app_id |-> app[p].id, force_build |-> force_rebuild,
                             phases |-> s])
                     /\ app_id' = [app_id EXCEPT ![p] = app[p].id]
                     /\ deployment' = [deployment EXCEPT ![p] =
                            deployment_to_wait_for(app[p], Len(deployments) + 1)]
                     /\ script' = [script EXCEPT ![p] = s]
                     /\ max_wait_sec' = [max_wait_sec EXCEPT ![p] = DefaultMaxWait]
                     /\ pc' = [pc EXCEPT ![p] = "wait"]
                     /\ error' = error
             ELSE /\ RaiseHTTPError(p)
                  /\ UNCHANGED << deployments, app_id, deployment, script,
                                  max_wait_sec >>
    /\ UNCHANGED << apps, entry, app_spec, listing, app, start_time, phase,
                    elapsed, run, reported, apps0, spec, new_env_vars, writer, progress >>

\* main, lines 216-227: app = api.create_app(app_spec); the wait happens only
\* if the response carries an active_deployment, otherwise main goes on to
\* print 'Deployment complete!'. The platform starts the new resource's first
\* deployment either way.
CreateApp(p) ==
    /\ pc[p] = "create"
    /\ \E d \in Delays(p), ok \in BOOLEAN :
          /\ Issue(p, Request("create_app", 0, 0, FALSE, ok), d)
          /\ IF ok
             THEN \E s \in NewScripts, shown \in BOOLEAN :
                     LET dep == Len(deployments) + 1
                         created == [id |-> Len(apps) + 1,
                                     spec |-> app_spec[p],
                                     active_deployment |-> IF shown THEN dep ELSE 0]
                     IN /\ apps' = Append(apps, created)
                        /\ writer' = Append(writer, p)
                        /\ deployments' = Append(deployments,
                              [app_id |-> created.id, force_build |-> FALSE,
                               phases |-> s])
                        /\ app' = [app EXCEPT ![p] = created]
                        /\ reported' = [reported EXCEPT ![p] = Append(@, created.id)]
                        /\ IF created.active_deployment # 0
                           THEN /\ app_id' = [app_id EXCEPT ![p] = created.id]
                                /\ deployment' = [deployment EXCEPT ![p] = dep]
                                /\ script' = [script EXCEPT ![p] = s]
                                /\ max_wait_sec' =
                                      [max_wait_sec EXCEPT ![p] = DefaultMaxWait]
                                /\ pc' = [pc EXCEPT ![p] = "wait"]
                           ELSE /\ pc' = [pc EXCEPT ![p] = "done"]
                                /\ UNCHANGED << app_id, deployment, script,
                                                max_wait_sec >>
                        /\ error' = error
             ELSE /\ RaiseHTTPError(p)
                  /\ UNCHANGED << apps, deployments, app, reported, app_id,
                                  deployment, script, max_wait_sec, writer >>
    /\ UNCHANGED << entry, app_spec, listing, start_time, phase, elapsed, run,
                    apps0, spec, new_env_vars, progress >>

\* wait_for_deployment, lines 94-95: start_time = time.time().
WaitStart(p) ==
    /\ pc[p] = "wait"
    /\ start_time' = [start_time EXCEPT ![p] = now]
    /\ pc' = [pc EXCEPT ![p] = "poll"]
    /\ UNCHANGED << apps, deployments, now, entry, app_spec, listing, app,
                    app_id, deployment, max_wait_sec, phase, elapsed, error, log,
                    slow, run, reported, script, apps0, spec, new_env_vars, writer, progress >>

\* wait_for_deployment, lines 98-115: one get_deployment request and what the
\* loop does with the phase read. The platform answers with the deployment's
\* current phase and moves it on to its next one.
Poll(p) ==
    /\ pc[p] = "poll"
    /\ \E d \in Delays(p), ok \in BOOLEAN, pr \in Reported(p) :
          LET dep == deployments[deployment[p]]
              ph == Head(dep.phases)
              el == (now + d) - start_time[p]
              decision == LoopDecision([phase |-> ph, progress |-> pr], el,
                                       max_wait_sec[p])
          IN /\ Issue(p, Request("get_deployment", app_id[p], deployment[p],
                                 FALSE, ok), d)
             /\ IF ok
                THEN /\ deployments' =
                          [deployments EXCEPT ![deployment[p]].phases =
                               RemoteAfterPoll(@, decision)]
                     /\ phase' = [phase EXCEPT ![p] = ph]
                     /\ progress' = [progress EXCEPT ![p] = pr]
                     /\ elapsed' = [elapsed EXCEPT ![p] =
                               IF decision \in {"raise_timeout", "sleep"}
                               THEN el ELSE @]
                     /\ pc' = [pc EXCEPT ![p] =
                               CASE decision = "return" -> "done"
                                 [] decision = "sleep" -> "sleep"
                                 [] OTHER -> "failed"]
                     /\ error' = [error EXCEPT ![p] =
                               CASE decision = "raise_failed" ->
                                       [kind |-> "DeploymentFailed", phase |-> ph]
                                 [] decision = "raise_timeout" ->
                                       [kind |-> "DeploymentTimeout", phase |-> "-"]
                                 [] OTHER -> @]
                ELSE /\ RaiseHTTPError(p)
                     /\ UNCHANGED << deployments, phase, elapsed, progress >>
    /\ UNCHANGED << apps, entry, app_spec, listing, app, app_id, deployment,
                    max_wait_sec, start_time, run, reported, script, apps0, spec,
                    new_env_vars, writer >>

\* wait_for_deployment, line 117: time.sleep(10).
Sleep(p) ==
    /\ pc[p] = "sleep"
    /\ now + PollInterval <= MaxClock
    /\ now' = now + PollInterval
    /\ pc' = [pc EXCEPT ![p] = "poll"]
    /\ UNCHANGED << apps, deployments, entry, app_spec, listing, app, app_id,
                    deployment, max_wait_sec, start_time, phase, elapsed, error,
                    log, slow, run, reported, script, apps0, spec, new_env_vars, writer, progress >>

\* update_env_vars, lines 123-125: the resource is fetched and spec is its
\* spec.
EnvGet(p) ==
    /\ pc[p] = "update_env_vars"
    /\ \E d \in Delays(p), ok \in BOOLEAN :
          /\ Issue(p, Request("get_app", app_id[p], 0, FALSE, ok), d)
          /\ IF ok
             THEN /\ IndexOf(app_id[p]) # 0
                  /\ spec' = [spec EXCEPT ![p] = apps[IndexOf(app_id[p])].spec]
                  /\ pc' = [pc EXCEPT ![p] = "env_update"]
                  /\ error' = error
             ELSE /\ RaiseHTTPError(p)
                  /\ spec' = spec
    /\ UNCHANGED << apps, deployments, entry, app_spec, listing, app, app_id,
                    deployment, max_wait_sec, start_time, phase, elapsed, run,
                    reported, script, apps0, new_env_vars, writer, progress >>

\* update_env_vars, lines 127-146: the first service's envs are merged in
\* place and the spec is sent with update_app.
EnvUpdate(p) ==
    /\ pc[p] = "env_update"
    /\ \E d \in Delays(p), ok \in BOOLEAN :
          LET sent == merged_spec(spec[p], new_env_vars[p])
          IN /\ Issue(p, Request("update_app", app_id[p], 0, FALSE, ok), d)
             /\ spec' = [spec EXCEPT ![p] = sent]
             /\ IF ok
                THEN LET i == IndexOf(app_id[p])
                         updated == update_app(apps[i], sent)
                     IN /\ i # 0
                        /\ apps' = [apps EXCEPT ![i] = updated]
                        /\ writer' = [writer EXCEPT ![i] = p]
                        /\ app' = [app EXCEPT ![p] = updated]
                        /\ pc' = [pc EXCEPT ![p] = "done"]
                        /\ error' = error
                ELSE /\ RaiseHTTPError(p)
                     /\ UNCHANGED << apps, app, writer >>
    /\ UNCHANGED << deployments, entry, app_spec, listing, app_id, deployment,
                    max_wait_sec, start_time, phase, elapsed, run, reported,
                    script, apps0, new_env_vars, progress >>

\* The script is run again after a run has ended: a new process, whose
\* clock is read from its own start. By then the platform has taken every
\* deployment to the phase it stays in.
Rerun(p) ==
    /\ entry = "main"
    /\ pc[p] \in {"done", "failed"}
    /\ run[p] < MaxRuns
    /\ run' = [run EXCEPT ![p] = @ + 1]
    /\ pc' = [pc EXCEPT ![p] = "main"]
    /\ listing' = [listing EXCEPT ![p] = << >>]
    /\ app' = [app EXCEPT ![p] = None]
    /\ app_id' = [app_id EXCEPT ![p] = 0]
    /\ deployment' = [deployment EXCEPT ![p] = 0]
    /\ script' = [script EXCEPT ![p] = << >>]
    /\ start_time' = [start_time EXCEPT ![p] = 0]
    /\ phase' = [phase EXCEPT ![p] = "-"]
    /\ elapsed' = [elapsed EXCEPT ![p] = 0]
    /\ error' = [error EXCEPT ![p] = NoError]
    /\ log' = [log EXCEPT ![p] = << >>]
    /\ slow' = [slow EXCEPT ![p] = 0]
    /\ now' = 0
    /\ deployments' = [i \in 1..Len(deployments) |->
                          [deployments[i] EXCEPT !.phases = << @[Len(@)] >>]]
    /\ progress' = [progress EXCEPT ![p] = NoProgress]
    /\ UNCHANGED << apps, entry, app_spec, max_wait_sec, reported, apps0, spec,
                    new_env_vars, writer >>

Next ==
    \E p \in Procs :
        \/ Locate(p)
        \/ UpdateApp(p)
        \/ CreateDeployment(p)
        \/ CreateApp(p)
        \/ WaitStart(p)
        \/ Poll(p)
        \/ Sleep(p)
        \/ Rerun(p)
        \/ EnvGet(p)
        \/ EnvUpdate(p)

Spec == Init /\ [][Next]_vars

\* wait_for_deployment called on its own, by a caller that keeps executing:
\* a loop iteration that can be taken is taken.
NextWait ==
    \E p \in Procs :
        \/ WaitStart(p)
        \/ Poll(p)
        \/ Sleep(p)

WaitSpec == InitWait /\ [][NextWait]_vars /\ WF_vars(NextWait)

ProgressSpec == InitProgress /\ [][NextWait]_vars

\* The steps of main(), taken by the concurrent runs in any order.
NextConc ==
    \E p \in Procs :
        \/ Locate(p)
        \/ UpdateApp(p)
        \/ CreateDeployment(p)
        \/ CreateApp(p)
        \/ WaitStart(p)
        \/ Poll(p)
        \/ Sleep(p)

ConcSpec == InitConc /\ [][NextConc]_vars

(* ---------------------------- properties ------------------------------ *)

Count(requests, op) ==
    Cardinality({ i \in 1..Len(requests) : requests[i].op = op })

Polls(p) == Count(log[p], "get_deployment")

Ended(p) == pc[p] \in {"done", "failed"}

LastRequest(p) == log[p][Len(log[p])]

\* The listing request of the run was answered.
Listed(p) == Len(log[p]) >= 1 /\ log[p][1].op = "list_apps" /\ log[p][1].ok

Matches(p) ==
    { i \in 1..Len(listing[p]) : listing[p][i].spec.name = app_spec[p].name }

AllAccepted(p) == \A i \in 1..Len(log[p]) : log[p][i].ok

NameCount(list, n) == Cardinality({ i \in 1..Len(list) : list[i].spec.name = n })

\* C1: whenever a run of main() has finished successfully ('Deployment
\* complete!'), the watcher polled a deployment of the resource and the last
\* phase it read was ACTIVE.
C1_NoPartialSuccess ==
    \A p \in Procs :
        (entry = "main" /\ pc[p] = "done") =>
            /\ Polls(p) >= 1
            /\ phase[p] = "ACTIVE"
            /\ LastRequest(p).op = "get_deployment"
            /\ LastRequest(p).app_id = app[p].id

\* C2: a run whose listing holds no resource of the desired name issues no
\* update request and at most one create request, and exactly one create
\* request by the time it ends.
C2_CreateBranch ==
    \A p \in Procs :
        (entry = "main" /\ Listed(p) /\ Matches(p) = {}) =>
            /\ Count(log[p], "update_app") = 0
            /\ Count(log[p], "create_app") <= 1
            /\ Ended(p) => Count(log[p], "create_app") = 1

C2_Witness ==
    /\ entry = "main" /\ pc[1] = "done"
    /\ Listed(1) /\ Matches(1) = {} /\ Len(listing[1]) = 2
    /\ Count(log[1], "create_app") = 1

\* C3: a run whose listing holds the desired name and whose requests are all
\* accepted has, when it ends, issued no create request, exactly one update
\* request, for the id of the first listed match, and exactly one
\* deployment-trigger request, for that id and with force_build true.
C3_UpdateBranch ==
    \A p \in Procs :
        (entry = "main" /\ Listed(p) /\ Matches(p) # {} /\ AllAccepted(p) /\ Ended(p)) =>
            LET first == CHOOSE i \in Matches(p) : \A j \in Matches(p) : i <= j
                id == listing[p][first].id
                updates == { i \in 1..Len(log[p]) : log[p][i].op = "update_app" }
                triggers == { i \in 1..Len(log[p]) : log[p][i].op = "create_deployment" }
            IN /\ Count(log[p], "create_app") = 0
               /\ Cardinality(updates) = 1
               /\ \A i \in updates : log[p][i].app_id = id
               /\ Cardinality(triggers) = 1
               /\ \A i \in triggers : log[p][i].app_id = id /\ log[p][i].force_build

C3_Witness ==
    /\ entry = "main" /\ pc[1] = "done"
    /\ Listed(1) /\ Matches(1) = {2} /\ AllAccepted(1)
    /\ Count(log[1], "update_app") = 1
    /\ Count(log[1], "create_deployment") = 1

\* C4: in runs of main() executed one after another against a platform that
\* held the desired name at most once, from the first run that reports a
\* resource id on: exactly one resource carries the name, its id is the one
\* every run has reported, and only the first reporting run can have created
\* it.
C4_Idempotent ==
    \A p \in Procs :
        (entry = "main" /\ NameCount(apps0, app_spec[p].name) <= 1
                        /\ reported[p] # << >>) =>
            /\ NameCount(apps, app_spec[p].name) = 1
            /\ \A i \in 1..Len(reported[p]) : reported[p][i] = reported[p][1]
            /\ \A i \in 1..Len(apps) :
                  apps[i].spec.name = app_spec[p].name => apps[i].id = reported[p][1]
            /\ (\E i \in 1..Len(log[p]) : log[p][i].op = "create_app" /\ log[p][i].ok)
                  => Len(reported[p]) = 1

C4_Witness ==
    /\ entry = "main" /\ pc[1] = "done" /\ run[1] = 2
    /\ NameCount(apps0, app_spec[1].name) = 0
    /\ Len(reported[1]) = 2
    /\ Count(log[1], "update_app") = 1

\* The script of the watched deployment ends in ACTIVE.
EndsActive(p) == script[p] # << >> /\ script[p][Len(script[p])] = "ACTIVE"

\* C5: when the phases the polls read reach ACTIVE as their first terminal
\* phase at position k, the wait issues at most k get_deployment requests; it
\* returns exactly when the k-th is answered, with ACTIVE read and that
\* request the last one issued; and it fails only by a timeout or a failed
\* request before that.
C5_WatcherSuccess ==
    \A p \in Procs :
        EndsActive(p) =>
            LET k == Len(script[p]) IN
            /\ Polls(p) <= k
            /\ pc[p] = "done" =>
                  /\ Polls(p) = k
                  /\ phase[p] = "ACTIVE"
                  /\ LastRequest(p).op = "get_deployment" /\ LastRequest(p).ok
                  /\ error[p] = NoError
            /\ (Polls(p) = k /\ LastRequest(p).ok) => pc[p] = "done"
            /\ pc[p] = "failed" => error[p].kind \in {"DeploymentTimeout", "HTTPError"}

C5_Witness ==
    /\ entry = "wait" /\ pc[1] = "done"
    /\ script[1] = << "PENDING", "BUILDING", "ACTIVE" >>
    /\ max_wait_sec[1] = 600
    /\ Polls(1) = 3

\* C6: once a poll has read ERROR or CANCELED the wait has failed with a
\* deployment-failed error naming that phase, and that poll is the last
\* request issued, whatever was read before and whatever time has elapsed.
C6_WatcherFailure ==
    \A p \in Procs :
        phase[p] \in {"ERROR", "CANCELED"} =>
            /\ pc[p] = "failed"
            /\ error[p] = [kind |-> "DeploymentFailed", phase |-> phase[p]]
            /\ LastRequest(p).op = "get_deployment" /\ LastRequest(p).ok
            /\ Polls(p) = Len(script[p])

C6_Witness ==
    /\ entry = "wait" /\ pc[1] = "failed"
    /\ script[1] = << "PENDING", "CANCELED" >>
    /\ phase[1] = "CANCELED"
    /\ now - start_time[1] > max_wait_sec[1]
    /\ Polls(1) = 2

\* The watched deployment never leaves its transient phase.
NeverTerminal(p) ==
    script[p] # << >> /\ script[p][Len(script[p])] \in TransientPhases

\* C7: a wait whose polls read a transient phase for ever ends: with a
\* timeout, unless a poll is not answered; and if every request was answered
\* the failure is the timeout.
C7_TimeoutTerminates ==
    \A p \in Procs :
        /\ (pc[p] \in {"wait", "poll", "sleep"} /\ NeverTerminal(p))
              ~> (pc[p] = "failed"
                    /\ error[p].kind \in {"DeploymentTimeout", "HTTPError"})
        /\ []((NeverTerminal(p) /\ pc[p] = "failed" /\ AllAccepted(p))
                 => error[p].kind = "DeploymentTimeout")

C7_Witness ==
    /\ pc[1] = "failed" /\ NeverTerminal(1) /\ AllAccepted(1)
    /\ error[1].kind = "DeploymentTimeout"
    /\ max_wait_sec[1] = DefaultMaxWait
    /\ Polls(1) > DefaultMaxWait \div PollInterval

\* C8: a timeout is raised only in a poll cycle that read a transient phase
\* and found elapsed greater than max_wait_sec; a poll that reads ACTIVE
\* makes the wait return, and one that reads ERROR or CANCELED makes it fail
\* with that phase, whatever time has elapsed.
C8_TerminalBeatsTimeout ==
    \A p \in Procs :
        /\ error[p].kind = "DeploymentTimeout" =>
              /\ phase[p] \in TransientPhases
              /\ elapsed[p] > max_wait_sec[p]
        /\ phase[p] = "ACTIVE" => (pc[p] = "done" /\ error[p] = NoError)
        /\ phase[p] \in {"ERROR", "CANCELED"} => error[p].kind = "DeploymentFailed"

C8_Witness ==
    /\ pc[1] = "done" /\ phase[1] = "ACTIVE"
    /\ Polls(1) >= 2
    /\ now - start_time[1] > max_wait_sec[1]

\* C9: a request that failed is the last request of its run, and the run
\* has ended in the failed state with the HTTP error.
C9_ErrorPropagation ==
    \A p \in Procs :
        \A i \in 1..Len(log[p]) :
            ~log[p][i].ok =>
                /\ i = Len(log[p])
                /\ pc[p] = "failed"
                /\ error[p].kind = "HTTPError"

C9_Witness ==
    /\ entry = "main" /\ pc[1] = "failed"
    /\ Len(log[1]) = 2
    /\ log[1][2].op = "update_app" /\ ~log[1][2].ok

KeysOf(envs) == { envs[i].key : i \in 1..Len(envs) }

\* C10: once update_env_vars has sent its update, the first service's
\* environment list in the spec sent (and in the platform's spec once the
\* update is accepted) holds no key twice, and its keys are those of the
\* fetched list and those of new_env_vars.
C10_MergeKeys ==
    \A p \in Procs :
        (entry = "env" /\ Count(log[p], "update_app") = 1
                       /\ apps0[1].spec.services # << >>) =>
            LET before == apps0[1].spec.services[1].envs
                after == spec[p].services[1].envs
            IN /\ \A i, j \in 1..Len(after) : after[i].key = after[j].key => i = j
               /\ KeysOf(after) = KeysOf(before) \cup KeysOf(new_env_vars[p])
               /\ pc[p] = "done" => apps[1].spec = spec[p]

C10_Witness ==
    /\ entry = "env" /\ pc[1] = "done"
    /\ apps0[1].spec.services # << >>
    /\ Len(apps0[1].spec.services[1].envs) = 2
    /\ KeysOf(apps0[1].spec.services[1].envs) = {"A"}
    /\ KeysOf(new_env_vars[1]) = {"B"}
    /\ Len(apps[1].spec.services[1].envs) = 2

\* The keys of envs are distinct.
DistinctKeys(envs) ==
    \A i, j \in 1..Len(envs) : envs[i].key = envs[j].key => i = j

\* C11: once update_env_vars has sent its update for a first service whose
\* fetched environment list holds no key twice, every key of new_env_vars
\* has an entry in the list sent, every entry of that key carries the new
\* value as a string with scope RUN_TIME and type GENERAL, and every fetched
\* entry whose key is not in new_env_vars is in the list sent as it was.
C11_MergeOverlay ==
    \A p \in Procs :
        (entry = "env" /\ Count(log[p], "update_app") = 1
                       /\ apps0[1].spec.services # << >>
                       /\ DistinctKeys(apps0[1].spec.services[1].envs)) =>
            LET before == apps0[1].spec.services[1].envs
                after == spec[p].services[1].envs
                new == new_env_vars[p]
            IN /\ \A n \in 1..Len(new) :
                     /\ \E j \in 1..Len(after) : after[j].key = new[n].key
                     /\ \A j \in 1..Len(after) :
                           after[j].key = new[n].key =>
                               after[j] = [key |-> new[n].key,
                                           value |-> new[n].value.text,
                                           scope |-> "RUN_TIME",
                                           type |-> "GENERAL"]
               /\ \A i \in 1..Len(before) :
                     before[i].key \notin KeysOf(new) =>
                         \E j \in 1..Len(after) : after[j] = before[i]

C11_Witness ==
    /\ entry = "env" /\ pc[1] = "done"
    /\ apps0[1].spec.services # << >>
    /\ LET before == apps0[1].spec.services[1].envs
       IN /\ Len(before) = 2 /\ DistinctKeys(before)
          /\ before[1] = [key |-> "A", value |-> "0", scope |-> "BUILD_TIME",
                          type |-> "SECRET"]
          /\ before[2].type = "SECRET"
    /\ new_env_vars[1] = << [key |-> "A", value |-> [py |-> "int", text |-> "1"]] >>
    /\ apps[1].spec.services[1].envs[1].type = "GENERAL"
    /\ apps[1].spec.services[1].envs[2].type = "SECRET"

\* C12: when get_app_by_name has returned to main(), the result is None,
\* with no error raised, exactly if no listed resource has the target as its
\* spec.name, character for character; otherwise it is the listed resource
\* at the lowest position whose spec.name is the target.
C12_LocatorResult ==
    \A p \in Procs :
        (entry = "main" /\ pc[p] \in {"update", "create"}) =>
            /\ Listed(p)
            /\ error[p] = NoError
            /\ (app[p] = None) <=> (Matches(p) = {})
            /\ (pc[p] = "create") <=> (Matches(p) = {})
            /\ Matches(p) # {} =>
                  LET first == CHOOSE i \in Matches(p) : \A j \in Matches(p) : i <= j
                  IN app[p] = listing[p][first]

C12_Witness ==
    /\ entry = "main" /\ pc[1] = "update"
    /\ Len(listing[1]) = 2
    /\ listing[1][1].spec.name = "ADMP-SERVER"
    /\ listing[1][2].spec.name = "admp-server"
    /\ app[1] = listing[1][2]

\* Position of the first resource named n in list.
FirstNamed(list, n) ==
    CHOOSE i \in 1..Len(list) :
        /\ list[i].spec.name = n
        /\ \A j \in 1..(i - 1) : list[j].spec.name # n

\* The run has had an update request accepted.
Updated(p) ==
    \E k \in 1..Len(log[p]) : log[p][k].op = "update_app" /\ log[p][k].ok

\* C13: when two concurrent runs of main() desire the same name and the
\* platform held a resource of that name before they started, then at every
\* point of every interleaving no create request has been issued, the
\* platform holds the resources it held, with their ids, every request that
\* names a resource names the first one of that name, the other resources
\* are as they were, and once both runs have had their update accepted the
\* resource's spec is the desired spec of the run whose update was applied
\* last.
C13_SameExistingName ==
    (entry = "conc" /\ app_spec[1].name = app_spec[2].name
                    /\ NameCount(apps0, app_spec[1].name) >= 1) =>
        LET target == FirstNamed(apps0, app_spec[1].name)
        IN /\ \A p \in Runners : Count(log[p], "create_app") = 0
           /\ Len(apps) = Len(apps0)
           /\ \A i \in 1..Len(apps) :
                 /\ apps[i].id = apps0[i].id
                 /\ i # target => apps[i] = apps0[i]
           /\ \A p \in Runners :
                 /\ \A k \in 1..Len(log[p]) :
                       log[p][k].op # "list_apps" =>
                           log[p][k].app_id = apps0[target].id
                 /\ reported[p] \in { << >>, << apps0[target].id >> }
           /\ (\A p \in Runners : Updated(p)) =>
                 /\ writer[target] \in Runners
                 /\ apps[target].spec = app_spec[writer[target]]

C13_Witness ==
    /\ entry = "conc" /\ pc[1] = "done" /\ pc[2] = "done"
    /\ Len(apps0) = 2 /\ apps0[2].spec.name = "admp-server"
    /\ apps0[1].spec.name = "ADMP-SERVER"
    /\ app_spec[2] = [get_app_spec EXCEPT !.region = "sfo"]
    /\ Updated(1) /\ Updated(2)
    /\ writer[2] = 1
    /\ apps[2].spec.region = "nyc"

\* Name of the resource with id a ("": no such resource).
NameOf(a) == IF IndexOf(a) = 0 THEN "" ELSE apps[IndexOf(a)].spec.name

\* C14: when two concurrent runs of main() desire different names, at every
\* point of every interleaving each run's update, trigger and poll requests
\* name a resource of its own name, a resource of its name was written by
\* no other run, the run takes the update branch exactly if the platform
\* held its name before both started (then on the first resource of that
\* name), and a run whose requests were all accepted ends with what it
\* would leave alone: the resource it found carrying its desired spec and
\* no resource of its name added, or exactly one resource of its name,
\* created by it with its desired spec.
C14_DistinctNamesIndependent ==
    (entry = "conc" /\ app_spec[1].name # app_spec[2].name) =>
        \A p \in Runners :
            LET n == app_spec[p].name
                present == NameCount(apps0, n) >= 1
                own == { i \in 1..Len(apps) : apps[i].spec.name = n }
            IN /\ \A k \in 1..Len(log[p]) :
                     log[p][k].op \in {"update_app", "create_deployment",
                                       "get_deployment"} =>
                         /\ NameOf(log[p][k].app_id) = n
                         /\ present =>
                               log[p][k].app_id = apps0[FirstNamed(apps0, n)].id
               /\ \A i \in own : writer[i] \in {0, p}
               /\ deployment[p] # 0 =>
                     NameOf(deployments[deployment[p]].app_id) = n
               /\ Listed(p) => ((Matches(p) # {}) <=> present)
               /\ Count(log[p], "update_app") >= 1 => present
               /\ Count(log[p], "create_app") >= 1 => ~present
               /\ (Ended(p) /\ AllAccepted(p)) =>
                     IF present
                     THEN LET t == FirstNamed(apps0, n)
                          IN /\ apps[t].spec = app_spec[p]
                             /\ apps[t].id = apps0[t].id
                             /\ writer[t] = p
                             /\ Cardinality(own) = NameCount(apps0, n)
                     ELSE /\ Cardinality(own) = 1
                          /\ \A i \in own :
                                /\ apps[i].spec = app_spec[p]
                                /\ writer[i] = p
                                /\ reported[p] = << apps[i].id >>

C14_Witness ==
    /\ entry = "conc" /\ pc[1] = "done" /\ pc[2] = "done"
    /\ app_spec[2].name = "ADMP-SERVER"
    /\ Len(apps0) = 2
    /\ apps0[1].spec.name = "admp-server" /\ apps0[2].spec.name = "admp-server"
    /\ Len(listing[1]) = 3 /\ Len(listing[2]) = 2
    /\ Count(log[1], "update_app") = 1
    /\ Count(log[2], "create_app") = 1
    /\ writer = << 1, 0, 2 >>

\* C15: in a run of main() that found the resource, the requests come in
\* the order list, update, trigger, polls: the trigger is issued only after
\* the update was accepted, a poll only after the trigger was accepted, and
\* every poll names the found resource and the deployment that trigger
\* started (the newest one, started with force_build), not the deployment
\* the listing showed as active.
C15_UpdateOrdering ==
    \A p \in Procs :
        (entry = "main" /\ Listed(p) /\ Matches(p) # {}) =>
            LET first == CHOOSE i \in Matches(p) : \A j \in Matches(p) : i <= j
                found == listing[p][first]
            IN \A k \in 1..Len(log[p]) :
                  /\ log[p][k].op = "update_app" => k = 2
                  /\ log[p][k].op = "create_deployment" =>
                        /\ k = 3
                        /\ log[p][2].op = "update_app" /\ log[p][2].ok
                  /\ log[p][k].op = "get_deployment" =>
                        /\ k >= 4
                        /\ log[p][3].op = "create_deployment" /\ log[p][3].ok
                        /\ log[p][k].app_id = found.id
                        /\ log[p][k].deployment_id = Len(deployments)
                        /\ log[p][k].deployment_id # found.active_deployment
                        /\ deployments[log[p][k].deployment_id].app_id = found.id
                        /\ deployments[log[p][k].deployment_id].force_build

C15_Witness ==
    /\ entry = "main" /\ pc[1] = "done" /\ run[1] = 2
    /\ Matches(1) = {1}
    /\ listing[1][1].active_deployment = 1
    /\ Len(deployments) = 3
    /\ Polls(1) = 2
    /\ log[1][5].deployment_id = 3

\* The wait of process p has failed with a timeout and none of its requests
\* took time.
TimedOutInstantRequests(p) ==
    entry = "wait" /\ slow[p] = 0 /\ error[p].kind = "DeploymentTimeout"

\* C16 as stated: with polls 10 seconds apart and requests that take no
\* time, a wait that has failed with a timeout did so with elapsed greater
\* than max_wait_sec and at most max_wait_sec + 10.
C16_OvershootBound ==
    \A p \in Procs :
        TimedOutInstantRequests(p) =>
            /\ elapsed[p] > max_wait_sec[p]
            /\ elapsed[p] <= max_wait_sec[p] + PollInterval

\* C16 amended: with polls 10 seconds apart and requests that take no time,
\* a wait that has failed with a timeout did so with elapsed greater than
\* max_wait_sec, and either at most max_wait_sec + 10 or at its first poll
\* with elapsed 0; the former whenever max_wait_sec is not negative. A wait
\* that sleeps after a poll found elapsed at most max_wait_sec.
C16_OvershootBoundAmended ==
    \A p \in Procs :
        /\ TimedOutInstantRequests(p) =>
              /\ elapsed[p] > max_wait_sec[p]
              /\ \/ elapsed[p] <= max_wait_sec[p] + PollInterval
                 \/ elapsed[p] = 0 /\ Polls(p) = 1
              /\ max_wait_sec[p] >= 0 =>
                    elapsed[p] <= max_wait_sec[p] + PollInterval
        /\ (entry = "wait" /\ pc[p] = "sleep") => elapsed[p] <= max_wait_sec[p]

C16_Witness ==
    /\ TimedOutInstantRequests(1)
    /\ max_wait_sec[1] = DefaultMaxWait
    /\ elapsed[1] = DefaultMaxWait + PollInterval
    /\ start_time[1] = SlowDelay

\* Process p has just had a poll answered and has not slept since.
JustPolled(p) ==
    /\ pc[p] \in {"sleep", "done", "failed"}
    /\ Len(log[p]) >= 1
    /\ LastRequest(p).op = "get_deployment" /\ LastRequest(p).ok

\* What the loop did with the poll just answered.
Taken(p) ==
    CASE pc[p] = "done" -> "return"
      [] pc[p] = "sleep" -> "sleep"
      [] error[p].kind = "DeploymentFailed" -> "raise_failed"
      [] OTHER -> "raise_timeout"

\* C17: whatever progress a poll's answer carries, the loop does with it
\* what it would do with any other progress and the same phase at the same
\* time: return, fail with that phase, time out or sleep. The loop keeps
\* nothing of the progress for a later iteration, so two waits that read the
\* same phases at the same times take the same polls to the same outcome.
C17_ProgressIgnored ==
    \A p \in Procs :
        (entry = "progress" /\ JustPolled(p)) =>
            /\ progress[p] \in ProgressValues
            /\ \A pr \in ProgressValues :
                  LoopDecision([phase |-> phase[p], progress |-> pr],
                               now - start_time[p], max_wait_sec[p]) = Taken(p)

C17_Witness ==
    /\ entry = "progress" /\ JustPolled(1) /\ pc[1] = "sleep"
    /\ phase[1] = "BUILDING"
    /\ progress[1] = [steps_successful |-> 3, steps_total |-> 3]
    /\ Polls(1) = 2

\* The polls of process p that were answered.
Answered(p) ==
    Cardinality({ k \in 1..Len(log[p]) :
                    log[p][k].op = "get_deployment" /\ log[p][k].ok })

\* The phases a deployment with script s has left after n answered polls.
Remaining(s, n) ==
    IF n + 1 >= Len(s) THEN << s[Len(s)] >> ELSE SubSeq(s, n + 1, Len(s))

\* C18: the request that follows a poll of a run is a poll again, for the
\* same resource id and deployment id. In a call of
\* wait_for_deployment on its own, whatever its outcome, every request is a
\* get_deployment for the ids given, the platform's resources are as they
\* were, no deployment was added, and the watched deployment is where the
\* platform's own phase sequence has taken it: after a timeout it is still
\* in a transient phase or in the terminal phase the platform gave it next.
C18_WatcherReadOnly ==
    \A p \in Procs :
        /\ \A k \in 2..Len(log[p]) :
              log[p][k - 1].op = "get_deployment" =>
                  /\ log[p][k].op = "get_deployment"
                  /\ log[p][k].app_id = log[p][k - 1].app_id
                  /\ log[p][k].deployment_id = log[p][k - 1].deployment_id
        /\ (entry = "wait" /\ pc[p] # "idle") =>
              /\ \A k \in 1..Len(log[p]) :
                    /\ log[p][k].op = "get_deployment"
                    /\ log[p][k].app_id = app_id[p]
                    /\ log[p][k].deployment_id = deployment[p]
              /\ apps = apps0
              /\ Len(deployments) = 1
              /\ deployments[1].app_id = 1 /\ ~deployments[1].force_build
              /\ deployments[deployment[p]].phases = Remaining(script[p], Answered(p))

C18_Witness ==
    /\ entry = "wait" /\ pc[1] = "failed"
    /\ error[1].kind = "DeploymentTimeout"
    /\ script[1] = << "PENDING", "BUILDING" >>
    /\ max_wait_sec[1] = 25
    /\ Polls(1) = 4
    /\ deployments[1].phases = << "BUILDING" >>

\* C19: the spec update_env_vars sends has the fields of the spec it
\* fetched, with the same name and region and as many services; every
\* service but the first is as fetched, the first is as fetched but for its
\* envs, and a spec fetched with no services is sent as it was.
C19_EnvFrame ==
    \A p \in Procs :
        (entry = "env" /\ Count(log[p], "update_app") = 1) =>
            LET fetched == apps0[1].spec
                sent == spec[p]
            IN /\ DOMAIN sent = DOMAIN fetched
               /\ sent.name = fetched.name
               /\ sent.region = fetched.region
               /\ Len(sent.services) = Len(fetched.services)
               /\ \A i \in 2..Len(fetched.services) :
                     sent.services[i] = fetched.services[i]
               /\ fetched.services # << >> =>
                     [sent.services[1] EXCEPT !.envs = fetched.services[1].envs]
                         = fetched.services[1]
               /\ fetched.services = << >> => sent = fetched
               /\ pc[p] = "done" => apps[1].spec = sent

C19_Witness ==
    /\ entry = "env" /\ pc[1] = "done"
    /\ Len(apps0[1].spec.services) = 2
    /\ apps0[1].spec.services[1].envs = << >>
    /\ KeysOf(new_env_vars[1]) = {"A"}
    /\ Len(apps[1].spec.services[1].envs) = 1
    /\ apps[1].spec.services[2] = Worker

\* C20: when two concurrent runs of main() desire the same name and the
\* platform held no resource of that name before they started, the two runs
\* together have issued at most one create request and the platform holds
\* at most one resource of that name.
C20_NoDuplicateCreate ==
    (entry = "conc" /\ app_spec[1].name = app_spec[2].name
                    /\ NameCount(apps0, app_spec[1].name) = 0) =>
        /\ Count(log[1], "create_app") + Count(log[2], "create_app") <= 1
        /\ NameCount(apps, app_spec[1].name) <= 1

====
